---- MODULE Spec2Model ----
(***************************************************************************)
(* The command bus of desktop-runtime: producers that answer IPC requests  *)
(* (ipc_handler, main.rs), the admission counter pending_ipc, the response *)
(* queue and the tao event loop that drains it (event_loop.rs).            *)
(*                                                                         *)
(* Threads.  Each request is answered by one producer thread of control    *)
(* (the UI callback thread or one of the IPC_WORKER_POOL_SIZE workers);    *)
(* every access to shared state (an atomic load, a fetch_add, a fetch_sub, *)
(* a critical section of the queue mutex, a send_event) is one step, so    *)
(* producers interleave with each other and with the event loop between    *)
(* these accesses.  The event loop is one thread; what it does between two *)
(* shared accesses is part of the same step.                               *)
(***************************************************************************)
EXTENDS Integers, Sequences, FiniteSets, TLC

(***************************************************************************)
(* Bounds of the model.                                                    *)
(***************************************************************************)
\* Number of inbound messages the UI Surface posts in one run.
NumRequests == 3

\* Number of inbound messages in the runs checked for liveness.
NumFairRequests == 2

\* Number of inbound messages in the runs that exercise the handlers.
NumCommandRequests == 2

\* config.rs:10 sets MAX_PENDING_IPC to 256; the model scales the capacity
\* down so that the counter reaches it with NumRequests requests.
MAX_PENDING_IPC == 2

\* config.rs:13 sets IPC_WORKER_POOL_SIZE to 4; the model scales the pool
\* down and keeps the scenario of one more blocking request than workers.
IPC_WORKER_POOL_SIZE == 2

\* config.rs:10: the capacity as configured, far above the number of
\* requests of a run.
ConfiguredMaxPending == 256

\* Page-load events the webview reports in one run.
MaxPageLoads == 2

\* ShowWindow events the tray adds to the events waiting for the loop.
MaxPendingShows == 1

\* Values a config key is written with.
MaxConfigValue == 2

\* Largest number in a segment of a version string.
MaxVersionPart == 2

\* Longest request path, counted in the pieces of PathPieces.
MaxPathLen == 3

\* Ids of the messages handed to parse_message on its own.
MaxCallId == 2

\* Width in bits of the admission counter in the model (AtomicUsize wraps
\* modulo 2^width; the model keeps the wrap-around with a narrower word).
UsizeBits == 6

UsizeModulus == 2 ^ UsizeBits

Requests == 1..NumRequests

VARIABLES
    call,          \* a call of a pure function: its argument and its result
    geometry,      \* loop local: what CloseRequested got from outer_position()
    config_file,   \* config.json in the user data dir: its keys and values
    writers,       \* the calls of the store's writers that take their own steps
    max_pending,   \* the capacity the admission counter is tested against
    poisoned,      \* the queue mutex is poisoned: a holder panicked
    recovered,     \* history: the non-empty drains that found the mutex poisoned
    pc,            \* producer position per request
    envelope,      \* producer local: the parsed envelope, while the handler runs
    ran_on,        \* history: the kind of thread that ran the request's handler
    resp,          \* producer local: the response built for the request
    wellformed,    \* history: requests whose message was a valid envelope
    was_empty,     \* producer local: the queue was empty before its push
    pending_ipc,   \* AtomicUsize admission counter
    ipc_queue,     \* Mutex<Vec<String>>: serialized responses, in push order
    flushes,       \* UserEvent::IpcFlush events sent and not yet handled
    loopPc,        \* event-loop thread position
    control_flow,  \* tao ControlFlow of the running iteration
    visible,       \* window visibility
    shown,         \* AtomicUsize flag shared by the page-load handler and the timer
    timer,         \* fallback timer thread: armed (sleeping) or fired
    page_loads,    \* history: page-load events the webview has reported
    show_events,   \* UserEvent::ShowWindow events sent and not yet handled
    show_sent,     \* history: ShowWindow sends by the page-load handler and the timer
    cause,         \* event whose handler called the running drain
    batch,         \* drain local: contents taken from the queue
    to_sub,        \* drain local: n.min(pending_ipc.load())
    scripts,       \* scripts handed to webview.evaluate_script, in order
    uiLog,         \* what the UI Surface did with each statement of the last script
    enqueued,      \* history: responses in the order they were pushed
    signalled      \* history: requests whose producer sent IpcFlush

vars == <<call, geometry, config_file, writers, max_pending, poisoned, recovered, pc, envelope, ran_on, resp, wellformed, was_empty,
          pending_ipc, ipc_queue, flushes, loopPc, control_flow,
          visible, shown, timer, page_loads, show_events, show_sent,
          cause, batch, to_sub, scripts, uiLog, enqueued, signalled>>

producerLocals == <<envelope, ran_on, resp, wellformed, was_empty>>
storeVars == <<config_file, writers>>
windowVars == <<visible, shown, timer, page_loads, show_events, show_sent>>
loopLocals == <<cause, batch, to_sub, geometry>>
uiVars == <<scripts, uiLog>>

(***************************************************************************)
(* Helpers                                                                 *)
(***************************************************************************)
Min(a, b) == IF a <= b THEN a ELSE b

\* AtomicUsize::fetch_add / fetch_sub: wrapping arithmetic on the counter.
FetchAdd(x, n) == (x + n) % UsizeModulus

FetchSub(x, n) == (x - n + UsizeModulus) % UsizeModulus

\* The concatenation of a sequence of sequences.
RECURSIVE Flatten(_)
Flatten(ss) == IF ss = <<>> THEN <<>> ELSE Head(ss) \o Flatten(Tail(ss))

\* Option::None and Option::Some.
None == [none |-> TRUE]

Some(x) == [some |-> x]

(***************************************************************************)
(* Config store (storage.rs)                                               *)
(***************************************************************************)
\* serde_json::Value, as far as the store tells values apart: null, a
\* number, a string, and an object with the fields of WindowBounds.
Null == [null |-> TRUE]

Num(n) == [num |-> n]

Str(text) == [str |-> text]

Bounds(b) == [bounds |-> b]

IsStr(value) == DOMAIN value = {"str"}

IsBounds(value) == DOMAIN value = {"bounds"}

\* One "key": value pair of the JSON object in config.json; the file is the
\* sequence of its pairs (a missing file is the file without pairs).
Entry(key, value) == [key |-> key, value |-> value]

\* storage.rs:23-33: AppConfig::default(): no window, no theme, no data.
AppConfig_default == [window |-> None, theme |-> None, data |-> <<>>]

\* The positions of the pairs of the file with the given key.
Keyed(file, key) == {i \in 1..Len(file) : file[i].key = key}

\* Deserialize of an Option field from the pairs of its key: None when the
\* key is not there or its value is null.
Field(file, key) ==
    IF \E i \in Keyed(file, key) : file[i].value # Null
    THEN Some(file[CHOOSE i \in Keyed(file, key) : file[i].value # Null].value)
    ELSE None

\* The derived Deserialize of AppConfig (storage.rs:23-33), as
\* serde_json::from_str runs it: a key of a named field that comes twice is
\* an error (duplicate field), a window that is not an object of bounds or
\* a theme that is not a string is an error (invalid type), null is None,
\* and the flattened map gets the pairs no named field took.
from_str(file) ==
    IF \/ Cardinality(Keyed(file, "window")) > 1
       \/ Cardinality(Keyed(file, "theme")) > 1
       \/ \E i \in Keyed(file, "window") :
             ~(file[i].value = Null \/ IsBounds(file[i].value))
       \/ \E i \in Keyed(file, "theme") :
             ~(file[i].value = Null \/ IsStr(file[i].value))
    THEN None
    ELSE Some([window |-> Field(file, "window"),
               theme |-> Field(file, "theme"),
               data |-> [k \in {file[i].key : i \in 1..Len(file)}
                                   \ {"window", "theme"} |->
                            file[CHOOSE i \in Keyed(file, k) :
                                    \A o \in Keyed(file, k) : o <= i].value]])

\* storage.rs:45: serde_json::from_str(&content).unwrap_or_default()
unwrap_or_default(parsed) ==
    IF parsed = None THEN AppConfig_default ELSE parsed.some

\* storage.rs:40-46: the config read from the file; the default when the
\* file is missing or does not parse.
load_config == unwrap_or_default(from_str(config_file))

\* The order in which the pairs of the flattened map are written.  A
\* HashMap iterates in no particular order; from_str does not depend on it.
KeyOrder == <<"font", "lang", "theme", "window">>

\* The derived Serialize of AppConfig, as serde_json::to_string_pretty runs
\* it (storage.rs:54): window and theme when they are Some, then every pair
\* of the flattened map, whatever its key.
to_string_pretty(config) ==
    (IF config.window = None THEN <<>>
     ELSE <<Entry("window", config.window.some)>>)
    \o (IF config.theme = None THEN <<>>
        ELSE <<Entry("theme", config.theme.some)>>)
    \o [i \in 1..Len(SelectSeq(KeyOrder, LAMBDA k : k \in DOMAIN config.data)) |->
          LET key == SelectSeq(KeyOrder, LAMBDA k : k \in DOMAIN config.data)[i]
          IN  Entry(key, config.data[key])]

\* HashMap::insert
Insert(map, key, value) ==
    [k \in DOMAIN map \cup {key} |-> IF k = key THEN value ELSE map[k]]

\* storage.rs:67-71, run in one piece: the file set_value leaves.
set_value(key, value) ==
    to_string_pretty([load_config EXCEPT !.data = Insert(@, key, value)])

\* A mutant of save_window_bounds: the config is saved as it was loaded.
save_window_bounds_Unchanged(bounds) == to_string_pretty(load_config)

\* storage.rs:73-83, run in one piece by the thread of the event loop: the
\* file save_window_bounds leaves.
save_window_bounds(bounds) ==
    to_string_pretty([load_config EXCEPT !.window = Some(Bounds(bounds))])

\* storage.rs:94-117: the object ReadConfig returns for a config: window,
\* theme, then every pair of the map inserted over them.
FullConfig(config) ==
    config.data
    @@ (IF config.theme = None THEN <<>> ELSE "theme" :> config.theme.some)
    @@ (IF config.window = None THEN <<>> ELSE "window" :> config.window.some)

\* storage.rs:94-96
get_full_config == FullConfig(load_config)

\* Keys and values of the writes of the concurrent writers: keys of the
\* flattened map, numbers as values.
ConfigKeys == {"font", "lang"}

ConfigValues == 1..MaxConfigValue

\* The keys and the JSON values WriteConfig is called with, and the configs
\* the file holds before the call: each one a config the store has saved.
WriteKeys == ConfigKeys \cup {"window", "theme"}

JsonValues ==
    {Null, Str("dark"), Str("light")}
    \cup {Num(n) : n \in ConfigValues} \cup {Bounds(n) : n \in ConfigValues}

StoredConfigs ==
    [window : {None} \cup {Some(Bounds(n)) : n \in ConfigValues},
     theme : {None, Some(Str("dark"))},
     data : {<<>>} \cup {"lang" :> Num(n) : n \in ConfigValues}]

\* storage.rs:68 and 74: let mut config = load_config();
StoreLoad(w) ==
    /\ writers[w].pc = "start"
    /\ writers' = [writers EXCEPT ![w].pc = "loaded", ![w].config = load_config]
    /\ UNCHANGED <<call, config_file, max_pending, poisoned, recovered, pc, producerLocals,
                   pending_ipc, ipc_queue, flushes, loopPc, control_flow,
                   windowVars, loopLocals, uiVars, enqueued, signalled>>

\* storage.rs:69 and 75-80: the key is set in the loaded copy.
StoreModify(w) ==
    /\ writers[w].pc = "loaded"
    /\ writers' = [writers EXCEPT
                     ![w].pc = "modified",
                     ![w].config =
                        IF w = "set_value"
                        THEN [writers[w].config EXCEPT
                                !.data = Insert(@, writers[w].key,
                                                Num(writers[w].value))]
                        ELSE [writers[w].config EXCEPT
                                !.window = Some(Bounds(writers[w].value))]]
    /\ UNCHANGED <<call, config_file, max_pending, poisoned, recovered, pc, producerLocals,
                   pending_ipc, ipc_queue, flushes, loopPc, control_flow,
                   windowVars, loopLocals, uiVars, enqueued, signalled>>

\* storage.rs:70 and 81 with 49-59: save_config writes the copy to the file.
StoreSave(w) ==
    /\ writers[w].pc = "modified"
    /\ config_file' = to_string_pretty(writers[w].config)
    /\ writers' = [writers EXCEPT ![w].pc = "done"]
    /\ UNCHANGED <<call, max_pending, poisoned, recovered, pc, producerLocals, pending_ipc,
                   ipc_queue, flushes, loopPc, control_flow, windowVars,
                   loopLocals, uiVars, enqueued, signalled>>

(***************************************************************************)
(* Protocol (ipc/mod.rs)                                                   *)
(***************************************************************************)
\* A raw message that has no id field.
NoId == 0

\* The closed command set: the variants of enum Command.
CommandNames ==
    {"ReadConfig", "WriteConfig", "Ping", "OpenFileDialog",
     "OpenFileDialogWithFilters", "SaveFileDialog", "OpenFolderDialog",
     "GetVersion", "CheckForUpdates", "DownloadUpdate", "InstallUpdate",
     "OpenUrl", "GetSystemInfo"}

\* Raw messages the UI Surface may post for its r-th request in the runs
\* that exercise the queue: a well-formed envelope (OpenUrl of a file: URL),
\* an unknown command tag, an envelope without id, and text that is not
\* JSON.
RawMessages(r) ==
    {[json |-> TRUE, id |-> r, name |-> "OpenUrl", url |-> "file:"],
     [json |-> TRUE, id |-> r, name |-> "NoSuchCommand", url |-> ""],
     [json |-> TRUE, id |-> NoId, name |-> "OpenUrl", url |-> "file:"],
     [json |-> FALSE, id |-> NoId, name |-> "not json", url |-> ""]}

\* Raw messages of the runs that exercise the handlers: Ping, OpenUrl of an
\* https: URL and of a file: URL.
CommandMessages(r) ==
    {[json |-> TRUE, id |-> r, name |-> "Ping", url |-> ""],
     [json |-> TRUE, id |-> r, name |-> "OpenUrl", url |-> "https:"],
     [json |-> TRUE, id |-> r, name |-> "OpenUrl", url |-> "file:"]}

\* A raw message that has no name field, and one that lacks the argument
\* of its command.
NoName == ""

NoArgument == ""

\* ipc/mod.rs:43-60: the variants of Command that have a field without a
\* serde default; the model keeps that field in the slot named url.
RequiresArgument(name) ==
    name \in {"WriteConfig", "OpenFileDialogWithFilters", "DownloadUpdate",
              "InstallUpdate", "OpenUrl"}

\* A mutant of parse_message: the command tag is not checked.
parse_message_IgnoresTag(raw) ==
    IF raw.json /\ raw.id # NoId
    THEN [id |-> raw.id, command |-> [name |-> raw.name, url |-> raw.url]]
    ELSE None

\* A mutant of parse_message: a message without a usable envelope is given
\* a default envelope instead of being ignored.
parse_message_Lenient(raw) ==
    IF raw.json /\ raw.id # NoId /\ raw.name \in CommandNames
    THEN [id |-> raw.id, command |-> [name |-> raw.name, url |-> raw.url]]
    ELSE [id |-> NoId, command |-> [name |-> "OpenUrl", url |-> "file:"]]

\* serde_json::from_str(raw).ok(): Some(envelope) only for JSON that has an
\* id, a name of the closed command set and the fields that variant needs.
parse_message(raw) ==
    IF /\ raw.json
       /\ raw.id # NoId
       /\ raw.name \in CommandNames
       /\ RequiresArgument(raw.name) => raw.url # NoArgument
    THEN [id |-> raw.id, command |-> [name |-> raw.name, url |-> raw.url]]
    ELSE None

\* A mutant of is_blocking_command: OpenUrl is missing from the pattern.
is_blocking_command_WithoutOpenUrl(command) ==
    command.name \in
        {"OpenFileDialog", "OpenFileDialogWithFilters", "SaveFileDialog",
         "OpenFolderDialog", "CheckForUpdates", "DownloadUpdate",
         "InstallUpdate"}

\* ipc/mod.rs:112-124: the commands that may block.
is_blocking_command(command) ==
    command.name \in
        {"OpenFileDialog", "OpenFileDialogWithFilters", "SaveFileDialog",
         "OpenFolderDialog", "CheckForUpdates", "DownloadUpdate",
         "InstallUpdate", "OpenUrl"}

\* Result::Ok and Result::Err of handle_command, and a panic that unwinds
\* out of it.
Ok(data) == [kind |-> "ok", value |-> data]

Err(message) == [kind |-> "err", value |-> message]

Panic == [kind |-> "panic", value |-> "unwinding"]

\* One run of a handler: how the leaf operation it calls ended ("none"
\* when it calls none, "done", "failed" or "panicked") and what
\* handle_command returned.
Run(leaf, result) == [leaf |-> leaf, result |-> result]

\* A mutant of the scheme list: file: URLs are accepted as well.
ALLOWED_URL_SCHEMES_WithFile == {"https:", "http:", "file:"}

\* ipc/mod.rs:20: the prefixes OpenUrl accepts; the model keeps of a URL
\* the prefix that decides the test.
ALLOWED_URL_SCHEMES == {"https:", "http:"}

\* ipc/mod.rs:133-211 with ipc/updates.rs:42-120 and storage.rs:49-70.
\* Ping, GetVersion and GetSystemInfo build their value themselves.
\* ReadConfig reads the store.  WriteConfig returns written whether or not
\* save_config could write the file.  The dialogs return Ok with the path,
\* which is null when the dialog was canceled.  The update commands map
\* the errors of their requests and file operations to Err.  OpenUrl
\* rejects a URL outside the allowed schemes before it calls anything;
\* otherwise it calls opener::open, which opens the URL, fails, or panics.
HandlerRuns(command) ==
    CASE command.name = "Ping" -> {Run("none", Ok("pong"))}
      [] command.name = "GetVersion" -> {Run("none", Ok("version"))}
      [] command.name = "GetSystemInfo" -> {Run("none", Ok("info"))}
      [] command.name = "ReadConfig" -> {Run("done", Ok("config"))}
      [] command.name = "WriteConfig" ->
            {Run("done", Ok("written")), Run("failed", Ok("written"))}
      [] command.name \in {"OpenFileDialog", "OpenFileDialogWithFilters",
                           "SaveFileDialog", "OpenFolderDialog"} ->
            {Run("done", Ok("path")), Run("failed", Ok("path: null"))}
      [] command.name = "CheckForUpdates" ->
            {Run("done", Ok("release")), Run("failed", Err("request failed"))}
      [] command.name = "DownloadUpdate" ->
            IF command.url # "https:"
            THEN {Run("none", Err("Download URL must be https://"))}
            ELSE {Run("done", Ok("path")), Run("failed", Err("request failed"))}
      [] command.name = "InstallUpdate" ->
            {Run("failed", Err("Installer file not found")),
             Run("done", Ok("launched")),
             Run("failed", Err("opener failed"))}
      [] command.name = "OpenUrl" ->
            IF command.url \notin ALLOWED_URL_SCHEMES
            THEN {Run("none", Err("URL must be http:// or https://"))}
            ELSE {Run("done", Ok("opened")),
                  Run("failed", Err("opener failed")),
                  Run("panicked", Panic)}

\* What a call of handle_command can end in.
handle_command(command) == {run.result : run \in HandlerRuns(command)}

\* A mutant of IpcResponse::err: the ok field is filled as well.
IpcResponse_err_BothSet(id, message) ==
    [id |-> id, ok |-> Some(message), err |-> Some(message)]

\* ipc/mod.rs:88-94
IpcResponse_ok(id, data) == [id |-> id, ok |-> Some(data), err |-> None]

\* ipc/mod.rs:97-103
IpcResponse_err(id, message) == [id |-> id, ok |-> None, err |-> Some(message)]

\* A mutant of the serializer: an unset field is written as null.
Serialize_WithNulls(response) ==
    [f \in {"id", "ok", "err"} |->
        IF f = "id" THEN response.id
        ELSE IF response[f] = None THEN "null" ELSE response[f].some]

\* serde_json::to_string of an IpcResponse (ipc/mod.rs:77-84): the JSON
\* object has the field id and, of ok and err, the fields that are Some
\* (skip_serializing_if = "Option::is_none").
Serialize(response) ==
    [f \in {"id"} \cup {g \in {"ok", "err"} : response[g] # None} |->
        IF f = "id" THEN response.id ELSE response[f].some]

(***************************************************************************)
(* Producer: ipc_handler (main.rs) and the enqueue of its response         *)
(***************************************************************************)
LoopGone == loopPc = "exited"

\* What the protocol calls a valid envelope: JSON with an id and a command
\* tag of the closed set.
ValidEnvelope(raw) ==
    /\ raw.json
    /\ raw.id # NoId
    /\ raw.name \in CommandNames
    /\ RequiresArgument(raw.name) => raw.url # NoArgument

\* main.rs:180-183: the UI Surface posts its next message, one of raws; the
\* closure parses it and, on Some(envelope), calls handle_command itself, on
\* the thread that called the closure.  A message that does not parse is
\* ignored.
Post(r, raws) ==
    /\ pc[r] = "new"
    /\ \A q \in DOMAIN pc : q < r => pc[q] # "new"
    /\ ~LoopGone
    /\ \E raw \in raws :
          LET parsed == parse_message(raw) IN
          /\ wellformed' = IF ValidEnvelope(raw) THEN wellformed \cup {r}
                                                 ELSE wellformed
          /\ IF parsed = None
             THEN /\ pc' = [pc EXCEPT ![r] = "ignored"]
                  /\ UNCHANGED <<envelope, ran_on>>
             ELSE /\ pc' = [pc EXCEPT ![r] = "handle"]
                  /\ envelope' = [envelope EXCEPT ![r] = parsed]
                  /\ ran_on' = [ran_on EXCEPT ![r] = "caller"]
    /\ UNCHANGED <<call, storeVars, max_pending, poisoned, recovered, resp, was_empty, pending_ipc, ipc_queue,
                   flushes, loopPc, control_flow, windowVars, loopLocals, uiVars,
                   enqueued, signalled>>

PostMessage(r) == Post(r, RawMessages(r))

PostCommand(r) == Post(r, CommandMessages(r))

\* main.rs:183-186: the response built from what handle_command returned;
\* none when it panicked.
Respond(id, result) ==
    CASE result.kind = "ok" -> IpcResponse_ok(id, result.value)
      [] result.kind = "err" -> IpcResponse_err(id, result.value)
      [] result.kind = "panic" -> None

\* main.rs:183-187: handle_command returns and the response is built with
\* the envelope's id and serialized (serde_json::to_string of an
\* IpcResponse does not fail).  Nothing between the call and the closure's
\* caller catches a panic: it unwinds out of the closure and no response is
\* built.
HandleCommand(r) ==
    /\ pc[r] = "handle"
    /\ \E result \in handle_command(envelope[r].command) :
          /\ resp' = [resp EXCEPT ![r] = Respond(envelope[r].id, result)]
          /\ pc' = [pc EXCEPT ![r] =
                IF result.kind = "panic" THEN "unwound" ELSE "check"]
    /\ envelope' = [envelope EXCEPT ![r] = None]
    /\ UNCHANGED <<call, storeVars, max_pending, poisoned, recovered, ran_on, wellformed, was_empty, pending_ipc,
                   ipc_queue, flushes, loopPc, control_flow, windowVars,
                   loopLocals, uiVars, enqueued, signalled>>

\* A mutant of the capacity test: the counter may pass the capacity by one.
AtCapacity_Above(current) == current > max_pending

\* pending_ipc.load(Relaxed) >= MAX_PENDING_IPC
AtCapacity(current) == current >= max_pending

\* main.rs:188-191: the load of the counter and the capacity test; at
\* capacity the response is dropped and the handler returns.
CheckCapacity(r) ==
    /\ pc[r] = "check"
    /\ pc' = [pc EXCEPT ![r] = IF AtCapacity(pending_ipc) THEN "shed" ELSE "inc"]
    /\ UNCHANGED <<call, storeVars, max_pending, poisoned, recovered, producerLocals, pending_ipc, ipc_queue, flushes,
                   loopPc, control_flow, windowVars, loopLocals, uiVars, enqueued,
                   signalled>>

\* main.rs:192: pending_ipc.fetch_add(1), a step of its own after the load.
Admit(r) ==
    /\ pc[r] = "inc"
    /\ pending_ipc' = FetchAdd(pending_ipc, 1)
    /\ pc' = [pc EXCEPT ![r] = "push"]
    /\ UNCHANGED <<call, storeVars, max_pending, poisoned, recovered, producerLocals, ipc_queue, flushes, loopPc,
                   control_flow, windowVars, loopLocals, uiVars, enqueued,
                   signalled>>

\* A mutant of the wake rule: every enqueue signals.
FirstOfBatch_Always(q) == TRUE

\* The enqueuer signals when its item is the first of an empty queue.
FirstOfBatch(q) == q = <<>>

\* Vec::push under the queue mutex.
VecPush(q, x) == Append(q, x)

\* enqueue: one critical section of the queue mutex appends the serialized
\* response and notes whether the queue was empty.
Enqueue(r) ==
    /\ pc[r] = "push"
    /\ was_empty' = [was_empty EXCEPT ![r] = FirstOfBatch(ipc_queue)]
    /\ ipc_queue' = VecPush(ipc_queue, Serialize(resp[r]))
    /\ enqueued' = Append(enqueued, [by |-> r, resp |-> Serialize(resp[r])])
    /\ pc' = [pc EXCEPT ![r] = IF FirstOfBatch(ipc_queue) THEN "signal" ELSE "done"]
    /\ UNCHANGED <<call, storeVars, max_pending, poisoned, recovered, envelope, ran_on, resp, wellformed,
                   pending_ipc, flushes, loopPc, control_flow, windowVars,
                   loopLocals, uiVars, signalled>>

\* A producer panics inside the critical section of enqueue, before its
\* push: the unwinding thread drops the guard, which poisons the mutex for
\* good (std::sync::Mutex); the Vec keeps what it held and the admission is
\* not given back.
EnqueuePanics(r) ==
    /\ pc[r] = "push"
    /\ poisoned' = TRUE
    /\ pc' = [pc EXCEPT ![r] = "enqueue_unwound"]
    /\ UNCHANGED <<call, storeVars, max_pending, recovered, producerLocals, pending_ipc, ipc_queue,
                   flushes, loopPc, control_flow, windowVars, loopLocals, uiVars,
                   enqueued, signalled>>

\* main.rs:193-196: send_event succeeds while the event loop exists.
SendFlush(r) ==
    /\ pc[r] = "signal"
    /\ ~LoopGone
    /\ flushes' = flushes + 1
    /\ signalled' = signalled \cup {r}
    /\ pc' = [pc EXCEPT ![r] = "done"]
    /\ UNCHANGED <<call, storeVars, max_pending, poisoned, recovered, producerLocals, pending_ipc, ipc_queue, loopPc,
                   control_flow, windowVars, loopLocals, uiVars, enqueued>>

\* main.rs:197-201: send_event fails (the event loop is gone) and the
\* admission is given back.
SendFlushFailed(r) ==
    /\ pc[r] = "signal"
    /\ LoopGone
    /\ pending_ipc' = FetchSub(pending_ipc, 1)
    /\ pc' = [pc EXCEPT ![r] = "done"]
    /\ UNCHANGED <<call, storeVars, max_pending, poisoned, recovered, producerLocals, ipc_queue, flushes, loopPc,
                   control_flow, windowVars, loopLocals, uiVars, enqueued,
                   signalled>>

(***************************************************************************)
(* Worker pool: blocking commands are handed to a fixed set of threads     *)
(***************************************************************************)
\* The requests whose task a pool thread is running.
Busy ==
    {q \in DOMAIN pc :
        ran_on[q] = "worker"
        /\ pc[q] \in {"handle", "check", "inc", "push", "signal"}}

\* The UI Surface posts a blocking command; the calling thread parses and
\* classifies it and submits its task to the pool, without waiting.
Submit(r) ==
    /\ pc[r] = "new"
    /\ \A q \in DOMAIN pc : q < r => pc[q] # "new"
    /\ ~LoopGone
    /\ \E raw \in RawMessages(r) :
          LET parsed == parse_message(raw) IN
          /\ parsed # None
          /\ is_blocking_command(parsed.command)
          /\ wellformed' = wellformed \cup {r}
          /\ envelope' = [envelope EXCEPT ![r] = parsed]
          /\ pc' = [pc EXCEPT ![r] = "queued"]
    /\ UNCHANGED <<call, storeVars, max_pending, poisoned, recovered, ran_on, resp, was_empty, pending_ipc,
                   ipc_queue, flushes, loopPc, control_flow, windowVars,
                   loopLocals, uiVars, enqueued, signalled>>

\* A pool thread that is free takes the oldest submitted task and calls the
\* handler of its command.
StartTask(r) ==
    /\ pc[r] = "queued"
    /\ \A q \in DOMAIN pc : q < r => pc[q] # "queued"
    /\ Cardinality(Busy) < IPC_WORKER_POOL_SIZE
    /\ pc' = [pc EXCEPT ![r] = "handle"]
    /\ ran_on' = [ran_on EXCEPT ![r] = "worker"]
    /\ UNCHANGED <<call, storeVars, max_pending, poisoned, recovered, envelope, resp, wellformed, was_empty,
                   pending_ipc, ipc_queue, flushes, loopPc, control_flow,
                   windowVars, loopLocals, uiVars, enqueued, signalled>>

(***************************************************************************)
(* Delivery: the script of one batch and what the UI Surface does with it  *)
(***************************************************************************)
\* A mutant of the script builder: the loop stops one response early.
BuildScript_DropsLast(b) ==
    [i \in 1..(Len(b) - 1) |-> [guarded |-> TRUE, payload |-> b[i]]]

\* A mutant of the script builder: the statements are not wrapped.
BuildScript_Unguarded(b) ==
    [i \in 1..Len(b) |-> [guarded |-> FALSE, payload |-> b[i]]]

\* A mutant of the script builder: the batch is walked from its end.
BuildScript_Reversed(b) ==
    [i \in 1..Len(b) |-> [guarded |-> TRUE, payload |-> b[Len(b) + 1 - i]]]

\* event_loop.rs:67-75: one try { JSON.parse; __resolveIpc } catch(e) {}
\* statement per response of the batch, in the order of the batch.
BuildScript(b) ==
    [i \in 1..Len(b) |-> [guarded |-> TRUE, payload |-> b[i]]]

\* The UI Surface runs the statements of a script in order.  throws is the
\* set of statements whose body raises (JSON.parse or the resolver): a
\* wrapped statement swallows the exception, an unwrapped one ends the
\* script, and the statements after it do not run.
Evaluate(script, throws) ==
    [i \in 1..Len(script) |->
        [id |-> script[i].payload.id,
         outcome |->
            IF \E j \in 1..(i - 1) : j \in throws /\ ~script[j].guarded
            THEN "not run"
            ELSE IF i \notin throws THEN "resolved"
            ELSE IF script[i].guarded THEN "caught"
            ELSE "uncaught"]]

(***************************************************************************)
(* drain_ipc_queue_and_deliver (event_loop.rs:48-80)                       *)
(***************************************************************************)
\* A mutant of mem::take: the queue is copied and keeps its contents.
LeftBehind_Copy(q) == q

\* std::mem::take(&mut *q) leaves the default value, an empty Vec.
LeftBehind(q) == <<>>

\* A mutant of the emptiness test: there is no early return.
NothingToDeliver_Never(n) == FALSE

\* A mutant of the emptiness test: a batch of one is dropped as well.
NothingToDeliver_OffByOne(n) == n <= 1

\* event_loop.rs:61: if n == 0 { return false; }
NothingToDeliver(n) == n = 0

\* event_loop.rs:64: n.min(pending_ipc.load(Relaxed))
ToSub(n, current) == Min(n, current)

\* tao's ControlFlow::Exit is sticky: once a call of the closure has set it,
\* an assignment of another value by a later call (event_loop.rs:101, 163,
\* 185) does not take effect.
Sticky(current, assigned) == IF current = "Exit" THEN "Exit" ELSE assigned

\* A mutant of the caller's test of the drain's result: Poll whatever the
\* drain returned.
FlowAfterDrain_AlwaysPoll(had_work) == "Poll"

\* event_loop.rs:161-164 and 184-187: `if had_work` sets Poll; otherwise
\* the Wait of line 101 stands.
FlowAfterDrain(had_work) == IF had_work THEN "Poll" ELSE "Wait"

\* A mutant of the recovery: a poisoned lock gives the drain nothing.
lock_or_recover_PoisonLost(q, is_poisoned) == IF is_poisoned THEN <<>> ELSE q

\* event_loop.rs:54-57: ipc_queue.lock().unwrap_or_else(|e| e.into_inner())
\* gives the guard of the Vec whether or not the mutex is poisoned.
lock_or_recover(q, is_poisoned) == q

\* Where the loop goes on when the drain called for event c returns.
AfterDrain(c) == IF c = "IpcFlush" THEN "events" ELSE "redraw"

\* event_loop.rs:53-63: the critical section that takes the queue, and the
\* early return of an empty batch (the drain returns false and the caller
\* leaves control_flow at Wait).  c is the event being handled; every call
\* of the loop's closure starts with control_flow = Wait.
DrainTake(c) ==
    LET q == lock_or_recover(ipc_queue, poisoned) IN
    /\ control_flow' =
          Sticky(control_flow,
                 IF NothingToDeliver(Len(q))
                 THEN FlowAfterDrain(FALSE)
                 ELSE "Wait")
    /\ ipc_queue' = LeftBehind(q)
    /\ IF NothingToDeliver(Len(q))
       THEN /\ cause' = "none"
            /\ batch' = <<>>
            /\ loopPc' = AfterDrain(c)
       ELSE /\ cause' = c
            /\ batch' = q
            /\ loopPc' = "drain_load"
    /\ recovered' = IF poisoned /\ ~NothingToDeliver(Len(q)) THEN recovered + 1 ELSE recovered
    /\ UNCHANGED <<call, storeVars, max_pending, poisoned, pc, producerLocals, pending_ipc, windowVars, to_sub, geometry,
                   uiVars, enqueued, signalled>>

\* event_loop.rs:64: the load of the counter, a step of its own.
DrainLoad ==
    /\ loopPc = "drain_load"
    /\ to_sub' = ToSub(Len(batch), pending_ipc)
    /\ loopPc' = "drain_sub"
    /\ UNCHANGED <<call, storeVars, max_pending, poisoned, recovered, pc, producerLocals, pending_ipc, ipc_queue, flushes,
                   control_flow, windowVars, cause, batch, geometry, uiVars,
                   enqueued, signalled>>

\* event_loop.rs:65-79 and the caller's `if had_work`: the fetch_sub, then
\* the script of the whole batch is built and handed to evaluate_script
\* once, and the drain returns true, which sets control_flow to Poll.
\* (An Err of evaluate_script is only logged; the model takes the UI
\* Surface to run the script.)
DrainDeliver ==
    /\ loopPc = "drain_sub"
    /\ pending_ipc' = FetchSub(pending_ipc, to_sub)
    /\ LET script == BuildScript(batch) IN
       /\ scripts' = Append(scripts, script)
       /\ \E throws \in SUBSET (1..Len(script)) :
             uiLog' = Evaluate(script, throws)
    /\ batch' = <<>>
    /\ to_sub' = 0
    /\ cause' = "none"
    /\ control_flow' = Sticky(control_flow, FlowAfterDrain(TRUE))
    /\ loopPc' = AfterDrain(cause)
    /\ UNCHANGED <<call, storeVars, max_pending, poisoned, recovered, pc, producerLocals, ipc_queue, flushes, windowVars, geometry,
                   enqueued, signalled>>

(***************************************************************************)
(* run_event_loop (event_loop.rs:87-191)                                   *)
(***************************************************************************)
\* The parked loop is woken by a user event sent through the proxy.
WakeOnUserEvent ==
    /\ loopPc = "parked"
    /\ flushes > 0 \/ show_events > 0
    /\ loopPc' = "events"
    /\ control_flow' = Sticky(control_flow, "Wait")
    /\ UNCHANGED <<call, storeVars, max_pending, poisoned, recovered, pc, producerLocals, pending_ipc, ipc_queue, flushes,
                   windowVars, loopLocals, uiVars, enqueued, signalled>>

\* The parked loop is woken by an event of the window system or the tray.
WakeOnOsEvent ==
    /\ loopPc = "parked"
    /\ loopPc' = "events"
    /\ control_flow' = Sticky(control_flow, "Wait")
    /\ UNCHANGED <<call, storeVars, max_pending, poisoned, recovered, pc, producerLocals, pending_ipc, ipc_queue, flushes,
                   windowVars, loopLocals, uiVars, enqueued, signalled>>

\* event_loop.rs:151-153: a ShowWindow event is taken.
HandleShowWindow ==
    /\ loopPc = "events"
    /\ show_events > 0
    /\ show_events' = show_events - 1
    /\ visible' = TRUE
    /\ control_flow' = Sticky(control_flow, "Wait")
    /\ UNCHANGED <<call, storeVars, max_pending, poisoned, recovered, pc, producerLocals, pending_ipc, ipc_queue,
                   flushes, loopPc, shown, timer, page_loads, show_sent,
                   loopLocals, uiVars, enqueued, signalled>>

\* event_loop.rs:154-156
HandleHideWindow ==
    /\ loopPc = "events"
    /\ visible' = FALSE
    /\ control_flow' = Sticky(control_flow, "Wait")
    /\ UNCHANGED <<call, storeVars, max_pending, poisoned, recovered, pc, producerLocals, pending_ipc, ipc_queue,
                   flushes, loopPc, shown, timer, page_loads, show_events,
                   show_sent, loopLocals, uiVars, enqueued, signalled>>

\* event_loop.rs:157-159: the exit transition.  tao ends the loop after
\* this call or after the calls for the rest of the iteration's events.
HandleQuit ==
    /\ loopPc = "events"
    /\ control_flow' = "Exit"
    /\ loopPc' = loopPc
    /\ UNCHANGED <<call, storeVars, max_pending, poisoned, recovered, pc, producerLocals, pending_ipc, ipc_queue, flushes,
                   windowVars, loopLocals, uiVars, enqueued, signalled>>

\* event_loop.rs:170-181: when the window reports its position, the window
\* bounds are saved by save_window_bounds (storage.rs:73-83), which loads
\* the config, sets window and saves it; then Exit.
HandleCloseRequested ==
    /\ loopPc = "events"
    /\ \E position \in {"Ok", "Err"} :
          /\ geometry' = position
          /\ config_file' = IF position = "Ok"
                            THEN save_window_bounds("bounds")
                            ELSE config_file
    /\ control_flow' = "Exit"
    /\ loopPc' = loopPc
    /\ UNCHANGED <<call, writers, max_pending, poisoned, recovered, pc, producerLocals, pending_ipc, ipc_queue, flushes,
                   windowVars, cause, batch, to_sub, uiVars, enqueued, signalled>>

\* event_loop.rs:160-165: an IpcFlush event is taken and the queue drained.
HandleIpcFlush ==
    /\ loopPc = "events"
    /\ flushes > 0
    /\ flushes' = flushes - 1
    /\ DrainTake("IpcFlush")

\* event_loop.rs:183-188: after the pending events of the iteration, the
\* queue is drained whether or not an IpcFlush was handled.
MainEventsCleared ==
    /\ loopPc = "events"
    /\ flushes = 0
    /\ show_events = 0
    /\ flushes' = flushes
    /\ DrainTake("MainEventsCleared")

\* event_loop.rs:101 and 189: the last call of an iteration sets
\* control_flow = Wait and does nothing else, so the loop parks; when the
\* exit transition was taken in this iteration, the loop ends instead.
RedrawEventsCleared ==
    /\ loopPc = "redraw"
    /\ control_flow' = Sticky(control_flow, "Wait")
    /\ loopPc' = IF control_flow = "Exit" THEN "exited" ELSE "parked"
    /\ UNCHANGED <<call, storeVars, max_pending, poisoned, recovered, pc, producerLocals, pending_ipc, ipc_queue, flushes,
                   windowVars, loopLocals, uiVars, enqueued, signalled>>

\* The exit transition was taken and tao ends the loop without calling the
\* closure for the events the iteration still had (the call for
\* Event::LoopDestroyed matches no branch of the closure).
LoopDestroyed ==
    /\ loopPc = "events"
    /\ control_flow = "Exit"
    /\ loopPc' = "exited"
    /\ UNCHANGED <<call, storeVars, max_pending, poisoned, recovered, pc, producerLocals, pending_ipc, ipc_queue,
                   flushes, control_flow, windowVars, loopLocals, uiVars,
                   enqueued, signalled>>

(***************************************************************************)
(* Showing the window (main.rs:233-253, event_loop.rs:126-134)             *)
(***************************************************************************)
\* A mutant of the first-to-show test: the flag is compared with 1.
FirstToShow_OffByOne(previous) == previous = 1

\* A mutant of the first-to-show test: everyone who increments the flag
\* sends.
FirstToShow_Always(previous) == TRUE

\* main.rs:239 and 249: s.fetch_add(1, Relaxed) == 0
FirstToShow(previous) == previous = 0

\* fetch_add on the flag, then send_event(ShowWindow) by the first to
\* increment it; the result of the send is ignored, and the event reaches
\* the loop only while the loop exists.
ShowOnce ==
    /\ shown' = FetchAdd(shown, 1)
    /\ IF FirstToShow(shown)
       THEN /\ show_sent' = show_sent + 1
            /\ show_events' = IF LoopGone THEN show_events ELSE show_events + 1
       ELSE UNCHANGED <<show_sent, show_events>>

\* main.rs:235-243: the webview reports a page load to on_page_load.
PageLoad ==
    /\ page_loads < MaxPageLoads
    /\ ~LoopGone
    /\ page_loads' = page_loads + 1
    /\ ShowOnce
    /\ UNCHANGED <<call, storeVars, max_pending, poisoned, recovered, pc, producerLocals, pending_ipc, ipc_queue,
                   flushes, loopPc, control_flow, visible, timer, loopLocals,
                   uiVars, enqueued, signalled>>

\* main.rs:247-252: the timer thread wakes from its sleep of
\* SHOW_WINDOW_FALLBACK_SECS.
FallbackTimer ==
    /\ timer = "armed"
    /\ timer' = "fired"
    /\ ShowOnce
    /\ UNCHANGED <<call, storeVars, max_pending, poisoned, recovered, pc, producerLocals, pending_ipc, ipc_queue,
                   flushes, loopPc, control_flow, visible, page_loads,
                   loopLocals, uiVars, enqueued, signalled>>

\* event_loop.rs:127-134: the tray icon or its Show item is activated and
\* the handler sends ShowWindow.
TrayShow ==
    /\ ~LoopGone
    /\ show_events < MaxPendingShows
    /\ show_events' = show_events + 1
    /\ UNCHANGED <<call, storeVars, max_pending, poisoned, recovered, pc, producerLocals, pending_ipc, ipc_queue,
                   flushes, loopPc, control_flow, visible, shown, timer,
                   page_loads, show_sent, loopLocals, uiVars, enqueued,
                   signalled>>

(***************************************************************************)
(* The app:// protocol (protocol.rs): strings are sequences of characters  *)
(***************************************************************************)
\* The pieces request paths are put together from, and their characters.
PathPieces ==
    {"/", ".", "a", "index", ".html", ".js", ".css", ".json", ".ico", ".svg",
     ".png", ".woff2", ".bin"}

PieceText ==
    [piece \in PathPieces |->
        CASE piece = "/" -> <<"/">>
          [] piece = "." -> <<".">>
          [] piece = "a" -> <<"a">>
          [] piece = "index" -> <<"i", "n", "d", "e", "x">>
          [] piece = ".html" -> <<".", "h", "t", "m", "l">>
          [] piece = ".js" -> <<".", "j", "s">>
          [] piece = ".css" -> <<".", "c", "s", "s">>
          [] piece = ".json" -> <<".", "j", "s", "o", "n">>
          [] piece = ".ico" -> <<".", "i", "c", "o">>
          [] piece = ".svg" -> <<".", "s", "v", "g">>
          [] piece = ".png" -> <<".", "p", "n", "g">>
          [] piece = ".woff2" -> <<".", "w", "o", "f", "f", "2">>
          [] piece = ".bin" -> <<".", "b", "i", "n">>]

\* The string made of the given pieces.
Text(pieces) == Flatten([i \in 1..Len(pieces) |-> PieceText[pieces[i]]])

\* Every request path of at most MaxPathLen pieces.
RequestPaths ==
    {Text(pieces) :
        pieces \in UNION {[1..n -> PathPieces] : n \in 0..MaxPathLen}}

\* str::trim_start_matches('/') and str::trim_end_matches('/')
RECURSIVE trim_start_matches(_)
trim_start_matches(str) ==
    IF str # <<>> /\ Head(str) = "/"
    THEN trim_start_matches(Tail(str))
    ELSE str

RECURSIVE trim_end_matches(_)
trim_end_matches(str) ==
    IF str # <<>> /\ str[Len(str)] = "/"
    THEN trim_end_matches(SubSeq(str, 1, Len(str) - 1))
    ELSE str

\* str::contains and str::ends_with
contains(str, pattern) ==
    \E i \in 1..(Len(str) - Len(pattern) + 1) :
        SubSeq(str, i, i + Len(pattern) - 1) = pattern

ends_with(str, suffix) ==
    /\ Len(suffix) <= Len(str)
    /\ SubSeq(str, Len(str) - Len(suffix) + 1, Len(str)) = suffix

\* protocol.rs:36
INDEX_PATH == Text(<<"index", ".html">>)

\* A mutant of mime_from_path: a .json file is given the type of a .js
\* file.
mime_from_path_JsFirst(path) ==
    IF ends_with(path, Text(<<".html">>)) \/ ends_with(path, <<"/">>) \/ path = <<>>
    THEN "text/html"
    ELSE IF ends_with(path, Text(<<".js">>)) \/ ends_with(path, Text(<<".json">>))
    THEN "application/javascript"
    ELSE IF ends_with(path, Text(<<".css">>)) THEN "text/css"
    ELSE IF ends_with(path, Text(<<".ico">>)) THEN "image/x-icon"
    ELSE IF ends_with(path, Text(<<".svg">>)) THEN "image/svg+xml"
    ELSE IF ends_with(path, Text(<<".png">>)) THEN "image/png"
    ELSE IF ends_with(path, Text(<<".woff2">>)) THEN "font/woff2"
    ELSE "application/octet-stream"

\* protocol.rs:44-64
mime_from_path(path) ==
    IF ends_with(path, Text(<<".html">>)) \/ ends_with(path, <<"/">>) \/ path = <<>>
    THEN "text/html"
    ELSE IF ends_with(path, Text(<<".js">>)) THEN "application/javascript"
    ELSE IF ends_with(path, Text(<<".css">>)) THEN "text/css"
    ELSE IF ends_with(path, Text(<<".json">>)) THEN "application/json"
    ELSE IF ends_with(path, Text(<<".ico">>)) THEN "image/x-icon"
    ELSE IF ends_with(path, Text(<<".svg">>)) THEN "image/svg+xml"
    ELSE IF ends_with(path, Text(<<".png">>)) THEN "image/png"
    ELSE IF ends_with(path, Text(<<".woff2">>)) THEN "font/woff2"
    ELSE "application/octet-stream"

\* A mutant of normalize_path: only a path that begins with ".." is
\* rejected.
normalize_path_LeadingDotsOnly(uri_path) ==
    LET trimmed == trim_end_matches(trim_start_matches(uri_path))
        path == IF trimmed = <<>> THEN INDEX_PATH ELSE trimmed
    IN  IF Len(path) >= 2 /\ SubSeq(path, 1, 2) = <<".", ".">>
        THEN None
        ELSE Some(path)

\* A mutant of normalize_path: trailing separators are kept.
normalize_path_KeepsTrailing(uri_path) ==
    LET trimmed == trim_start_matches(uri_path)
        path == IF trimmed = <<>> THEN INDEX_PATH ELSE trimmed
    IN  IF contains(path, <<".", ".">>) THEN None ELSE Some(path)

\* protocol.rs:70-82
normalize_path(uri_path) ==
    LET trimmed == trim_end_matches(trim_start_matches(uri_path))
        path == IF trimmed = <<>> THEN INDEX_PATH ELSE trimmed
    IN  IF contains(path, <<".", ".">>) THEN None ELSE Some(path)

\* The embedded directory (main.rs UI, include_dir!): the files fixed at
\* build time, by path, with their contents.
UiFiles ==
    {INDEX_PATH, Text(<<"a", ".js">>), Text(<<"a", ".json">>),
     Text(<<"a", "/", "a">>), Text(<<"a", ".bin">>), Text(<<".", ".css">>)}

UI == [path \in UiFiles |-> [contents_of |-> path]]

\* ServeResult
NotFound == [found |-> FALSE]

Found(body, mime_type) == [found |-> TRUE, body |-> body, mime_type |-> mime_type]

\* Dir::get_file: the file of the directory that has this path, if any.
get_file(ui, path) == IF path \in DOMAIN ui THEN Some(ui[path]) ELSE None

\* protocol.rs:92-104: one run of serve, with the path it handed to
\* get_file, if it came to that.
ServeRun(ui, uri_path) ==
    LET normalized == normalize_path(uri_path)
    IN  IF normalized = None
        THEN [queried |-> None, result |-> NotFound]
        ELSE LET path == normalized.some
                 file == get_file(ui, path)
             IN  [queried |-> Some(path),
                  result |-> IF file = None
                             THEN NotFound
                             ELSE Found(file.some, mime_from_path(path))]

serve(ui, uri_path) == ServeRun(ui, uri_path).result

(***************************************************************************)
(* Version comparison (ipc/updates.rs, ipc.rs)                             *)
(***************************************************************************)
\* A version string is the sequence of its segments between dots, and a
\* segment is the number it spells or NonNumeric; split('.') yields at
\* least one segment.
NonNumeric == -1

Segments == (0..MaxVersionPart) \cup {NonNumeric}

Versions == UNION {[1..n -> Segments] : n \in 1..3}

\* p.parse::<u64>().unwrap_or(0)
parse_u64_or_0(segment) == IF segment = NonNumeric THEN 0 ELSE segment

\* ipc/updates.rs:127-137: the loop over the two segment iterators, from
\* their position i on.
RECURSIVE semver_loop(_, _, _)
semver_loop(a, b, i) ==
    LET va == IF i <= Len(a) THEN Some(parse_u64_or_0(a[i])) ELSE None
        vb == IF i <= Len(b) THEN Some(parse_u64_or_0(b[i])) ELSE None
    IN  CASE va = None /\ vb = None -> 0
          [] va # None /\ vb # None /\ va.some # vb.some ->
                IF va.some > vb.some THEN 1 ELSE -1
          [] va # None /\ vb # None /\ va.some = vb.some ->
                semver_loop(a, b, i + 1)
          [] va # None /\ vb = None -> IF va.some > 0 THEN 1 ELSE 0
          [] va = None /\ vb # None -> IF vb.some > 0 THEN -1 ELSE 0

\* ipc/updates.rs:124-138
semver_compare(a, b) == semver_loop(a, b, 1)

\* ipc.rs:159-166: the first three segments, zero where there is none.
semver_parse(version) ==
    [k \in 1..3 |-> IF k <= Len(version) THEN parse_u64_or_0(version[k]) ELSE 0]

\* ipc.rs:158-179: the semver_compare of the older module file.
ipc_rs_semver_compare(a, b) ==
    LET pa == semver_parse(a)
        pb == semver_parse(b)
    IN  IF pa[1] # pb[1] THEN (IF pa[1] > pb[1] THEN 1 ELSE -1)
        ELSE IF pa[2] # pb[2] THEN (IF pa[2] > pb[2] THEN 1 ELSE -1)
        ELSE IF pa[3] # pb[3] THEN (IF pa[3] > pb[3] THEN 1 ELSE -1)
        ELSE 0

(***************************************************************************)
(* The asset of a release to download (ipc/updates.rs:14-40)               *)
(***************************************************************************)
\* The longest list of assets of a release.
MaxAssets == 2

\* ipc/updates.rs:15-25: the preference table of each target_os, and the
\* empty table of any other target.
ASSET_EXTENSIONS_windows ==
    << <<".", "m", "s", "i">>, <<".", "e", "x", "e">> >>

ASSET_EXTENSIONS_macos ==
    << <<".", "p", "k", "g">>, <<".", "d", "m", "g">>,
       <<".", "a", "p", "p", ".", "t", "a", "r", ".", "g", "z">> >>

ASSET_EXTENSIONS_linux ==
    << <<".", "A", "p", "p", "I", "m", "a", "g", "e">>,
       <<".", "a", "p", "p", "i", "m", "a", "g", "e">>,
       <<".", "d", "e", "b">> >>

ASSET_EXTENSIONS_other == <<>>

AssetTables ==
    {ASSET_EXTENSIONS_windows, ASSET_EXTENSIONS_macos, ASSET_EXTENSIONS_linux,
     ASSET_EXTENSIONS_other}

\* The names of the assets of a release: a stem and the suffix of an
\* installer of one of the platforms, or of an archive no table prefers.
AssetNames ==
    {<<"a">> \o suffix :
        suffix \in {ASSET_EXTENSIONS_windows[1], ASSET_EXTENSIONS_windows[2],
                    ASSET_EXTENSIONS_macos[2], ASSET_EXTENSIONS_linux[1],
                    ASSET_EXTENSIONS_linux[3], <<".", "z", "i", "p">>}}

\* An asset of the release JSON: "name" and "browser_download_url" are
\* strings or are not there (or are not strings: as_str() gives None).
Assets ==
    [name : {None} \cup {Some(n) : n \in AssetNames},
     browser_download_url : {None, Some("url1"), Some("url2")}]

AssetLists == UNION {[1..n -> Assets] : n \in 0..MaxAssets}

\* ipc/updates.rs:29-36: the two loops, the extension at table[i] and the
\* asset at arr[j]; `?` on the name returns None from the function.
RECURSIVE pick_asset_scan(_, _, _, _)
pick_asset_scan(table, arr, i, j) ==
    IF i > Len(table)
    THEN IF arr = <<>> THEN None ELSE arr[1].browser_download_url
    ELSE IF j > Len(arr)
    THEN pick_asset_scan(table, arr, i + 1, 1)
    ELSE IF arr[j].name = None
    THEN None
    ELSE IF ends_with(arr[j].name.some, table[i])
    THEN arr[j].browser_download_url
    ELSE pick_asset_scan(table, arr, i, j + 1)

\* ipc/updates.rs:27-40
pick_asset_url(table, arr) == pick_asset_scan(table, arr, 1, 1)

(***************************************************************************)
(* Calls of the pure functions, one call per run                           *)
(***************************************************************************)
\* No call, and the result of a call that has not returned.
NoCall == [fn |-> "none"]

Pending == [pending |-> TRUE]

Calling(fn, args) == {[fn |-> fn, arg |-> a, ret |-> Pending] : a \in args}

Returned(fn) == call.fn = fn /\ call.ret # Pending

\* The value a call has returned.
Result == call.ret.value

\* The call returns value.
Return(fn, value) ==
    /\ call.fn = fn
    /\ call.ret = Pending
    /\ call' = [call EXCEPT !.ret = [value |-> value]]
    /\ UNCHANGED <<storeVars, max_pending, poisoned, recovered, pc, producerLocals, pending_ipc,
                   ipc_queue, flushes, loopPc, control_flow, windowVars,
                   loopLocals, uiVars, enqueued, signalled>>

\* Raw messages for parse_message: text that is not JSON (the empty string
\* and "not json"), and JSON objects with or without id, with a name of
\* the closed set, an unknown name or no name, with or without argument;
\* "{}" is the object without any of them.
ParseInputs ==
    {[json |-> FALSE, id |-> NoId, name |-> t, url |-> NoArgument] :
        t \in {"", "not json"}}
    \cup [json : {TRUE}, id : {NoId} \cup (1..MaxCallId),
          name : CommandNames \cup {NoName, "NoSuchCommand"},
          url : {NoArgument, "https:", "file:"}]

\* Values of enum Command: every variant, with the argument values the
\* model distinguishes.
Commands ==
    [name : CommandNames,
     url : {NoArgument, "https:", "http:", "file:", "javascript:"}]

\* main.rs:183-186 on a parsed envelope: one run of handle_command and the
\* response built from it.
Call_respond ==
    /\ call.fn = "respond"
    /\ \E run \in HandlerRuns(call.arg.command) :
          Return("respond",
                 [leaf |-> run.leaf, resp |-> Respond(call.arg.id, run.result)])

\* ipc/mod.rs:112-124
Call_is_blocking_command ==
    Return("is_blocking_command", is_blocking_command(call.arg))

\* protocol.rs:70-82
Call_normalize_path == Return("normalize_path", normalize_path(call.arg))

\* protocol.rs:92-104
Call_serve == Return("serve", ServeRun(UI, call.arg))

\* ipc/updates.rs:124-138
Call_semver_compare ==
    Return("semver_compare", semver_compare(call.arg.a, call.arg.b))

\* ipc.rs:158-179
Call_ipc_rs_semver_compare ==
    Return("ipc_rs_semver_compare",
           ipc_rs_semver_compare(call.arg.a, call.arg.b))

\* ipc/mod.rs:128-130
Call_parse_message == Return("parse_message", parse_message(call.arg))

\* ipc/mod.rs:137-140: the WriteConfig arm of handle_command: set_value,
\* then Ok({"written": true}).
Call_WriteConfig ==
    /\ call.fn = "WriteConfig"
    /\ call.ret = Pending
    /\ config_file' = set_value(call.arg.key, call.arg.value)
    /\ call' = [call EXCEPT !.ret = [value |-> Ok("written")]]
    /\ UNCHANGED <<writers, max_pending, poisoned, recovered, pc, producerLocals, pending_ipc,
                   ipc_queue, flushes, loopPc, control_flow, windowVars,
                   loopLocals, uiVars, enqueued, signalled>>

\* ipc/mod.rs:136: the ReadConfig arm of handle_command, called when the
\* WriteConfig has returned; arg keeps the pair of that write.
Call_ReadConfig ==
    /\ call.fn = "WriteConfig"
    /\ call.ret # Pending
    /\ call' = [fn |-> "ReadConfig", arg |-> call.arg,
                ret |-> [value |-> Ok(get_full_config)]]
    /\ UNCHANGED <<storeVars, max_pending, poisoned, recovered, pc, producerLocals, pending_ipc,
                   ipc_queue, flushes, loopPc, control_flow, windowVars,
                   loopLocals, uiVars, enqueued, signalled>>

\* ipc/updates.rs:27-40
Call_pick_asset_url ==
    Return("pick_asset_url", pick_asset_url(call.arg.table, call.arg.assets))

(***************************************************************************)
(* Specification                                                           *)
(***************************************************************************)
\* The state when run_event_loop is entered (main.rs:162-176 and 282): no
\* message posted yet, counter 0, queue empty, window hidden.  reqs are the
\* requests of the run and capacity the configured MAX_PENDING_IPC.
HostInit(reqs, capacity) ==
    /\ max_pending = capacity
    /\ poisoned = FALSE
    /\ recovered = 0
    /\ pc = [r \in reqs |-> "new"]
    /\ envelope = [r \in reqs |-> None]
    /\ ran_on = [r \in reqs |-> "none"]
    /\ resp = [r \in reqs |-> None]
    /\ wellformed = {}
    /\ was_empty = [r \in reqs |-> FALSE]
    /\ pending_ipc = 0
    /\ ipc_queue = <<>>
    /\ flushes = 0
    /\ loopPc = "parked"
    /\ control_flow = "Wait"
    /\ visible = FALSE
    /\ shown = 0
    /\ timer = "armed"
    /\ page_loads = 0
    /\ show_events = 0
    /\ show_sent = 0
    /\ cause = "none"
    /\ geometry = "unread"
    /\ batch = <<>>
    /\ to_sub = 0
    /\ scripts = <<>>
    /\ uiLog = <<>>
    /\ enqueued = <<>>
    /\ signalled = {}

\* The host right after construction; none of the pure functions is being
\* called on its own.
StoreIdle == config_file = <<>> /\ writers = <<>>

InitFor(reqs, capacity) ==
    HostInit(reqs, capacity) /\ call = NoCall /\ StoreIdle

Init == InitFor(Requests, MAX_PENDING_IPC)

ProducerStep(r) ==
    \/ HandleCommand(r)
    \/ CheckCapacity(r)
    \/ Admit(r)
    \/ Enqueue(r)
    \/ SendFlush(r)
    \/ SendFlushFailed(r)

LoopStep ==
    \/ WakeOnUserEvent
    \/ HandleIpcFlush
    \/ MainEventsCleared
    \/ DrainLoad
    \/ DrainDeliver
    \/ RedrawEventsCleared

Next ==
    \/ \E r \in DOMAIN pc : PostMessage(r)
    \/ \E r \in DOMAIN pc : ProducerStep(r)
    \/ LoopStep
    \/ WakeOnOsEvent
    \/ HandleQuit
    \/ LoopDestroyed

Spec == Init /\ [][Next]_vars

\* The run of NumFairRequests requests under fair scheduling of the
\* threads: a producer that can take its next step takes it, and the event
\* loop handles the events it was sent.  Window and tray events, Quit
\* included, may or may not come.
FairRequests == 1..NumFairRequests

FairInit == InitFor(FairRequests, MAX_PENDING_IPC)

FairSpec ==
    /\ FairInit
    /\ [][Next]_vars
    /\ WF_vars(LoopStep)
    /\ \A r \in FairRequests : WF_vars(ProducerStep(r))

(***************************************************************************)
(* Closing the window: NumFairRequests requests are answered while the     *)
(* window may be closed, which saves its bounds and ends the loop as Quit  *)
(* does.                                                                   *)
(***************************************************************************)
CloseNext ==
    \/ Next
    \/ HandleCloseRequested

CloseSpec == FairInit /\ [][CloseNext]_vars

(***************************************************************************)
(* A producer that panics while it holds the queue mutex: the requests are *)
(* answered while any of the producers may unwind inside enqueue, and the  *)
(* event loop goes on draining.                                            *)
(***************************************************************************)
PoisonNext ==
    \/ \E r \in DOMAIN pc : PostMessage(r)
    \/ \E r \in DOMAIN pc : ProducerStep(r)
    \/ \E r \in DOMAIN pc : EnqueuePanics(r)
    \/ LoopStep
    \/ WakeOnOsEvent
    \/ HandleQuit
    \/ LoopDestroyed

PoisonSpec == Init /\ [][PoisonNext]_vars

(***************************************************************************)
(* A flood: 2 x MAX_PENDING_IPC requests are answered concurrently while   *)
(* the event loop handles nothing, so no drain happens.                    *)
(***************************************************************************)
FloodRequests == 1..(2 * MAX_PENDING_IPC)

FloodInit == InitFor(FloodRequests, MAX_PENDING_IPC)

FloodNext ==
    \E r \in FloodRequests :
        \/ PostMessage(r)
        \/ HandleCommand(r)
        \/ CheckCapacity(r)
        \/ Admit(r)
        \/ Enqueue(r)
        \/ SendFlush(r)

FloodSpec == FloodInit /\ [][FloodNext]_vars

(***************************************************************************)
(* The runs that exercise the handlers: the UI Surface posts Ping and      *)
(* OpenUrl commands, whose handlers succeed, fail or panic; the loop ends  *)
(* by Quit.                                                                *)
(***************************************************************************)
CommandRequests == 1..NumCommandRequests

CommandInit == InitFor(CommandRequests, MAX_PENDING_IPC)

CommandNext ==
    \/ \E r \in CommandRequests : PostCommand(r)
    \/ \E r \in CommandRequests : ProducerStep(r)
    \/ LoopStep
    \/ WakeOnOsEvent
    \/ HandleQuit
    \/ LoopDestroyed

CommandSpec == CommandInit /\ [][CommandNext]_vars

(***************************************************************************)
(* The window: the page-load handler, the fallback timer thread and the    *)
(* tray send ShowWindow to the event loop, which no request keeps busy.    *)
(* The timer thread and the loop are scheduled fairly.                     *)
(***************************************************************************)
WindowInit == InitFor({}, MAX_PENDING_IPC)

WindowLoopStep ==
    \/ WakeOnUserEvent
    \/ HandleShowWindow
    \/ MainEventsCleared
    \/ RedrawEventsCleared

WindowNext ==
    \/ PageLoad
    \/ FallbackTimer
    \/ TrayShow
    \/ WindowLoopStep
    \/ WakeOnOsEvent
    \/ HandleHideWindow
    \/ HandleQuit
    \/ HandleCloseRequested
    \/ LoopDestroyed

WindowSpec ==
    /\ WindowInit
    /\ [][WindowNext]_vars
    /\ WF_vars(FallbackTimer)
    /\ WF_vars(WindowLoopStep)

(***************************************************************************)
(* The pure functions, each called once on an argument of its input set,   *)
(* in a host that does nothing else.                                       *)
(***************************************************************************)
CallInit ==
    /\ HostInit({}, MAX_PENDING_IPC)
    /\ StoreIdle
    /\ call \in Calling("parse_message", ParseInputs)
                \cup Calling("is_blocking_command", Commands)
                \cup Calling("respond",
                             [id : 1..MaxCallId, command : Commands])

CallNext ==
    \/ Call_parse_message
    \/ Call_is_blocking_command
    \/ Call_respond

CallSpec == CallInit /\ [][CallNext]_vars

(***************************************************************************)
(* The app:// protocol: normalize_path and serve, each called once on a    *)
(* request path.                                                           *)
(***************************************************************************)
PathInit ==
    /\ HostInit({}, MAX_PENDING_IPC)
    /\ StoreIdle
    /\ call \in Calling("normalize_path", RequestPaths)
                \cup Calling("serve", RequestPaths)

PathNext ==
    \/ Call_normalize_path
    \/ Call_serve

PathSpec == PathInit /\ [][PathNext]_vars

(***************************************************************************)
(* Version comparison: both semver_compare functions, each called once on  *)
(* a pair of version strings.                                              *)
(***************************************************************************)
VersionInit ==
    /\ HostInit({}, MAX_PENDING_IPC)
    /\ StoreIdle
    /\ call \in Calling("semver_compare", [a : Versions, b : Versions])
                \cup Calling("ipc_rs_semver_compare",
                             [a : Versions, b : Versions])

VersionNext ==
    \/ Call_semver_compare
    \/ Call_ipc_rs_semver_compare

VersionSpec == VersionInit /\ [][VersionNext]_vars

(***************************************************************************)
(* The config store with two writers at once: set_value and                *)
(* save_window_bounds each load, modify and save, on their own threads,    *)
(* over a config file that has no key or already has one.                  *)
(***************************************************************************)
StoreInit ==
    /\ HostInit({}, MAX_PENDING_IPC)
    /\ call = NoCall
    /\ config_file \in {<<>>} \cup
                       {<<Entry("lang", Num(v))>> : v \in ConfigValues}
    /\ writers \in
          {f @@ g : f \in [{"set_value"} ->
                              [pc : {"start"}, key : ConfigKeys,
                               value : ConfigValues,
                               config : {AppConfig_default}]],
                    g \in [{"save_window_bounds"} ->
                              [pc : {"start"}, key : {"window"},
                               value : ConfigValues,
                               config : {AppConfig_default}]]}

StoreNext ==
    \E w \in DOMAIN writers :
        \/ StoreLoad(w)
        \/ StoreModify(w)
        \/ StoreSave(w)

StoreSpec == StoreInit /\ [][StoreNext]_vars

(***************************************************************************)
(* The pool scenario: one more blocking request than the pool has threads, *)
(* the capacity as configured, the event loop running (no Quit), every     *)
(* thread scheduled fairly.                                                *)
(***************************************************************************)
PoolRequests == 1..(IPC_WORKER_POOL_SIZE + 1)

PoolInit == InitFor(PoolRequests, ConfiguredMaxPending)

PoolTaskStep(r) ==
    \/ HandleCommand(r)
    \/ CheckCapacity(r)
    \/ Admit(r)
    \/ Enqueue(r)
    \/ SendFlush(r)

PoolNext ==
    \/ \E r \in PoolRequests : Submit(r)
    \/ \E r \in PoolRequests : StartTask(r)
    \/ \E r \in PoolRequests : PoolTaskStep(r)
    \/ LoopStep

PoolSpec ==
    /\ PoolInit
    /\ [][PoolNext]_vars
    /\ WF_vars(LoopStep)
    /\ \A r \in PoolRequests :
          WF_vars(Submit(r)) /\ WF_vars(StartTask(r)) /\ WF_vars(PoolTaskStep(r))

(***************************************************************************)
(* WriteConfig, then ReadConfig, over a config file the store has saved.   *)
(***************************************************************************)
ConfigInit ==
    /\ HostInit({}, MAX_PENDING_IPC)
    /\ writers = <<>>
    /\ config_file \in {to_string_pretty(config) : config \in StoredConfigs}
    /\ call \in Calling("WriteConfig", [key : WriteKeys, value : JsonValues])

ConfigNext ==
    \/ Call_WriteConfig
    \/ Call_ReadConfig

ConfigSpec == ConfigInit /\ [][ConfigNext]_vars

(***************************************************************************)
(* The choice of the asset: pick_asset_url called once on the assets of a  *)
(* release, in a build for one of the targets.                             *)
(***************************************************************************)
AssetInit ==
    /\ HostInit({}, MAX_PENDING_IPC)
    /\ StoreIdle
    /\ call \in Calling("pick_asset_url",
                        [table : AssetTables, assets : AssetLists])

AssetNext == Call_pick_asset_url

AssetSpec == AssetInit /\ [][AssetNext]_vars

(***************************************************************************)
(* Definitions used to state the properties                                *)
(***************************************************************************)
\* The responses of one script, in the order of its statements.
Payloads(script) == [i \in 1..Len(script) |-> script[i].payload]

\* All responses handed to the UI Surface so far, in delivery order.
Delivered == Flatten([k \in 1..Len(scripts) |-> Payloads(scripts[k])])

\* The responses pushed so far, in push order.
EnqueuedResponses == [i \in 1..Len(enqueued) |-> enqueued[i].resp]

Occurrences(seq, x) == Cardinality({i \in 1..Len(seq) : seq[i] = x})

\* The batches formed so far: the delivered ones, the one a running drain
\* holds, and the one that is forming in the queue.
Batches ==
    {Payloads(scripts[k]) : k \in 1..Len(scripts)} \cup {batch, ipc_queue}

InQueue(r) == \E i \in 1..Len(ipc_queue) : ipc_queue[i].id = r

InScripts(r) == \E i \in 1..Len(Delivered) : Delivered[i].id = r

Draining == loopPc \in {"drain_load", "drain_sub"}

(***************************************************************************)
(* Properties                                                              *)
(***************************************************************************)

\* C1: in every reachable state the admission counter is at most
\* MAX_PENDING_IPC, under any interleaving of producers and drains.
C1_CounterAtMostMax == pending_ipc <= MAX_PENDING_IPC

\* C2: when 2 x MAX_PENDING_IPC responses have been submitted concurrently
\* with no drain in between, exactly MAX_PENDING_IPC of them were admitted,
\* the others were shed, and the counter equals MAX_PENDING_IPC and the
\* number of admitted responses.
C2_FloodAdmitsExactlyMax ==
    (\A r \in DOMAIN pc : pc[r] \in {"done", "shed"}) =>
        /\ Cardinality({r \in DOMAIN pc : pc[r] = "done"}) = MAX_PENDING_IPC
        /\ Cardinality({r \in DOMAIN pc : pc[r] = "shed"}) = MAX_PENDING_IPC
        /\ pending_ipc = MAX_PENDING_IPC
        /\ pending_ipc = Cardinality({r \in DOMAIN pc : pc[r] = "done"})

C4_EachResponseInOneBatch ==
    /\ \A i \in 1..Len(enqueued) :
          Occurrences(Delivered \o batch \o ipc_queue, enqueued[i].resp) = 1
    /\ Len(Delivered \o batch \o ipc_queue) = Len(enqueued)

\* C4 witness: a producer enqueued while a drain held the batch it had
\* taken, after an earlier batch was delivered.
C4_Witness ==
    /\ loopPc = "drain_load"
    /\ ipc_queue # <<>>
    /\ scripts # <<>>

\* C5: the delivered batches in delivery order, then the batch being
\* delivered, then the queue, are the responses in the order of enqueue.
C5_Fifo == Delivered \o batch \o ipc_queue = EnqueuedResponses

\* C5 witness: a batch of two responses was delivered, then another batch.
C5_Witness ==
    /\ Len(scripts) = 2
    /\ Len(scripts[1]) = 2

\* C6: under fair scheduling, a response in the queue is eventually handed
\* to the UI Surface in a script, unless the event loop exits.
C6_EventuallyDelivered ==
    \A r \in FairRequests : InQueue(r) ~> (InScripts(r) \/ LoopGone)

\* C6 witness: a response whose producer signalled the parked loop was
\* delivered, a later one was delivered too, and the loop parked again.
C6_Witness ==
    /\ loopPc = "parked"
    /\ flushes = 0
    /\ Len(scripts) = 2
    /\ \E r \in FairRequests : InScripts(r) /\ r \in signalled

C8_OneGuardedScriptPerDrain ==
    /\ [](Draining <=> batch # <<>>)
    /\ [](\A i \in 1..Len(uiLog) : uiLog[i].outcome \in {"resolved", "caught"})
    /\ [][IF Draining /\ ~Draining'
          THEN /\ Len(scripts') = Len(scripts) + 1
               /\ Len(scripts'[Len(scripts')]) = Len(batch)
               /\ \A i \in 1..Len(batch) :
                     /\ scripts'[Len(scripts')][i].guarded
                     /\ scripts'[Len(scripts')][i].payload = batch[i]
                     /\ uiLog'[i].id = batch[i].id
               /\ Len(uiLog') = Len(batch)
          ELSE scripts' = scripts /\ uiLog' = uiLog]_vars

\* C8 witness: the first statement of a script raised and the one after it
\* resolved its response.
C8_Witness ==
    /\ Len(uiLog) >= 2
    /\ uiLog[1].outcome = "caught"
    /\ uiLog[2].outcome = "resolved"

\* C9: a drain that finds the queue empty returns at once and changes
\* nothing: no script, no flush signalled, counter and queue as they were,
\* and control_flow is not set to Poll (the drain reported no work).
C9_EmptyDrainIsNoOp ==
    [][(/\ loopPc = "events"
        /\ \/ flushes' = flushes - 1
           \/ loopPc' \in {"redraw", "drain_load"}
        /\ ipc_queue = <<>>)
       => /\ loopPc' \in {"events", "redraw"}
          /\ batch' = <<>>
          /\ control_flow' # "Poll"
          /\ UNCHANGED <<pending_ipc, ipc_queue, scripts, uiLog, signalled,
                         enqueued>>
          /\ flushes' <= flushes]_vars

\* C9 witness: the drain of MainEventsCleared found the queue empty.
C9_Witness ==
    /\ loopPc = "redraw"
    /\ control_flow = "Wait"
    /\ ipc_queue = <<>>
    /\ scripts # <<>>

\* C10: a response is enqueued only for a request whose message was a valid
\* envelope, it carries the id of that request, and a request has at most
\* one response enqueued: exactly one once its handler is done, none when
\* it was shed or ignored.
C10_OneResponsePerRequest ==
    /\ \A i \in 1..Len(enqueued) :
          /\ enqueued[i].by \in wellformed
          /\ enqueued[i].resp.id = enqueued[i].by
          /\ \A j \in 1..Len(enqueued) :
                enqueued[j].by = enqueued[i].by => j = i
    /\ \A r \in Requests :
          Cardinality({i \in 1..Len(enqueued) : enqueued[i].by = r})
            = IF pc[r] \in {"signal", "done"} THEN 1 ELSE 0

\* C10 witness: one request was answered, one was shed and one ignored.
C10_Witness ==
    /\ \E r \in Requests : pc[r] = "done" /\ InScripts(r)
    /\ \E r \in Requests : pc[r] = "shed"
    /\ \E r \in Requests : pc[r] = "ignored"

C12_BlockingOnlyOnWorkers ==
    \A r \in DOMAIN pc :
        (pc[r] = "handle" /\ is_blocking_command(envelope[r].command))
            => ran_on[r] = "worker"

\* The requests whose response is in the batch a running drain holds.
InBatch(r) == \E i \in 1..Len(batch) : batch[i].id = r

\* C13: a producer whose capacity test finds the counter at the capacity
\* sheds its response: the step leaves the counter, the queue and the wake
\* events as they were, the producer is never blocked at the test and is
\* finished after it, and the response is never enqueued, signalled or
\* handed to the UI Surface afterwards.
C13_ShedAtCapacity ==
    /\ [](\A r \in Requests :
            /\ pc[r] = "check" => ENABLED CheckCapacity(r)
            /\ pc[r] = "shed" =>
                  /\ ~InQueue(r) /\ ~InBatch(r) /\ ~InScripts(r)
                  /\ r \notin signalled
                  /\ \A i \in 1..Len(enqueued) : enqueued[i].by # r)
    /\ [][\A r \in Requests :
            /\ (pc[r] = "check" /\ pc'[r] # "check") =>
                  IF pending_ipc >= max_pending
                  THEN /\ pc'[r] = "shed"
                       /\ UNCHANGED <<pending_ipc, ipc_queue, flushes,
                                      enqueued, signalled, scripts>>
                  ELSE pc'[r] = "inc"
            /\ pc[r] = "shed" => pc'[r] = "shed"]_vars

\* C13 witness: one response was shed, the others were delivered, and the
\* run is over with the loop parked.
C13_Witness ==
    /\ \E r \in Requests : pc[r] = "shed"
    /\ \A r \in Requests : pc[r] \in {"shed", "done"}
    /\ \A r \in Requests : pc[r] = "done" => InScripts(r)
    /\ loopPc = "parked"

\* C14: admission comes before the handler.  A blocking command that
\* arrives while the counter is at the capacity forms no task: the step that
\* takes the message in does not start its handler.
C14_NoTaskAtCapacity ==
    [][\A r \in DOMAIN pc :
          (/\ pc[r] = "new"
           /\ pc'[r] # "new"
           /\ pending_ipc >= max_pending
           /\ envelope'[r] # None
           /\ is_blocking_command(envelope'[r].command))
              => pc'[r] \notin {"handle", "queued"}]_vars

\* A request is in flight from the call of its handler to the return of
\* the closure.
InFlight(r) == pc[r] \in {"queued", "handle", "check", "inc", "push", "signal"}

HandlerEnded(r) ==
    pc[r] \in {"check", "inc", "push", "signal", "done", "shed", "unwound"}

\* C16: a handler that fails or panics ends at the handler boundary with a
\* response for its request: once the call has ended, the closure holds a
\* response with the request's id (an err response when the handler did
\* not succeed) and its thread goes on.
C16_PanicBecomesErr ==
    \A r \in DOMAIN pc :
        HandlerEnded(r) =>
            /\ pc[r] # "unwound"
            /\ resp[r] # None
            /\ resp[r].id = r

\* C17: Quit is terminal.  Once a call of the closure has taken the exit
\* transition, control_flow stays Exit, no drain takes the queue and no
\* script is handed to the UI Surface: what is queued then stays queued.
C17_QuitIsTerminal ==
    [][control_flow = "Exit" =>
          /\ control_flow' = "Exit"
          /\ scripts' = scripts
          /\ batch' = batch
          /\ Len(ipc_queue') >= Len(ipc_queue)]_vars

\* C18: when the timer thread has fired and no page load has been
\* reported, ShowWindow has been sent; and unless a page load is reported or
\* the loop takes the exit transition, the window eventually is visible.
C18_FallbackShowsWindow ==
    /\ []((timer = "fired" /\ page_loads = 0) => show_sent = 1)
    /\ <>(visible \/ page_loads > 0 \/ control_flow = "Exit")

\* C18 witness: no page load was reported, the timer thread sent
\* ShowWindow, and the loop made the window visible.
C18_Witness ==
    /\ page_loads = 0
    /\ timer = "fired"
    /\ show_sent = 1
    /\ show_events = 0
    /\ visible
    /\ control_flow # "Exit"

\* The wire forms the host has produced: every serialized response that was
\* enqueued, is queued, is in the batch being delivered, or was delivered.
WireForms ==
    {enqueued[i].resp : i \in 1..Len(enqueued)}
        \cup {ipc_queue[i] : i \in 1..Len(ipc_queue)}
        \cup {batch[i] : i \in 1..Len(batch)}
        \cup {Delivered[i] : i \in 1..Len(Delivered)}

\* A field of a wire form carries a value.
Populated(w, f) == f \in DOMAIN w /\ w[f] # "null"

\* C19: every response the handler built has exactly one of ok and err set,
\* and so has every response that was enqueued or delivered.
C19_ExactlyOneOfOkErr ==
    /\ \A r \in DOMAIN pc :
          resp[r] # None => ((resp[r].ok # None) # (resp[r].err # None))
    /\ \A w \in WireForms : Populated(w, "ok") # Populated(w, "err")

\* C19 witness: a success and a failure have both been delivered.
C19_Witness ==
    \E i, j \in 1..Len(Delivered) :
        /\ Populated(Delivered[i], "ok")
        /\ Populated(Delivered[j], "err")

\* C20: the serialized form of a response has the field id of the response
\* and exactly one of the fields ok and err, none of them null; ok is
\* present exactly when the response is a success.
C20_UnsetFieldOmitted ==
    /\ \A w \in WireForms :
          /\ "id" \in DOMAIN w
          /\ ("ok" \in DOMAIN w) # ("err" \in DOMAIN w)
          /\ \A f \in DOMAIN w \ {"id"} : w[f] # "null"
    /\ \A i \in 1..Len(enqueued) :
          /\ enqueued[i].resp.id = resp[enqueued[i].by].id
          /\ ("ok" \in DOMAIN enqueued[i].resp) <=> (resp[enqueued[i].by].ok # None)

\* C20 witness: the wire form of a failure, without the field ok, and the
\* wire form of a success, without the field err, have both been enqueued.
C20_Witness ==
    \E i, j \in 1..Len(enqueued) :
        /\ resp[enqueued[i].by].ok = None
        /\ DOMAIN enqueued[i].resp = {"id", "err"}
        /\ resp[enqueued[j].by].err = None
        /\ DOMAIN enqueued[j].resp = {"id", "ok"}

\* C21: parse_message returns None for text that is not JSON (the empty
\* string included), for "{}", for an object without id, without name, with
\* a name outside the closed command set or without the argument its
\* command needs; for a well-formed message it returns the envelope with
\* the id and the command of the message.
C21_ParseRejectsMalformed ==
    Returned("parse_message") =>
        LET raw == call.arg
            malformed ==
                \/ ~raw.json
                \/ raw.id = NoId
                \/ raw.name = NoName
                \/ raw.name \notin CommandNames
                \/ RequiresArgument(raw.name) /\ raw.url = NoArgument
        IN  IF malformed
            THEN Result = None
            ELSE /\ Result # None
                 /\ Result.id = raw.id
                 /\ Result.command.name = raw.name

\* C21 witness: parse_message has returned the envelope of a well-formed
\* OpenUrl message.
C21_Witness ==
    /\ Returned("parse_message")
    /\ Result # None
    /\ Result.id = call.arg.id
    /\ Result.command.name = "OpenUrl"

\* C22: a message that is not a valid envelope is dropped silently: the
\* step that takes it leaves handler, response, admission counter, queue,
\* wake events and scripts as they were; the request stays ignored, no
\* handler ever runs for it and no response of it is ever enqueued.
C22_ProtocolErrorChangesNothing ==
    /\ [](\A r \in DOMAIN pc :
            pc[r] = "ignored" =>
                /\ r \notin wellformed
                /\ ran_on[r] = "none"
                /\ resp[r] = None
                /\ envelope[r] = None
                /\ \A i \in 1..Len(enqueued) : enqueued[i].by # r)
    /\ [][\A r \in DOMAIN pc :
            /\ (pc[r] = "new" /\ pc'[r] # "new" /\ r \notin wellformed') =>
                  /\ pc'[r] = "ignored"
                  /\ UNCHANGED <<envelope, ran_on, resp, pending_ipc,
                                 ipc_queue, flushes, enqueued, signalled,
                                 scripts, batch>>
            /\ pc[r] = "ignored" => pc'[r] = "ignored"]_vars

\* C22 witness: every message posted was a protocol error, and nothing was
\* admitted, queued or signalled.
C22_Witness ==
    /\ \A r \in DOMAIN pc : pc[r] = "ignored"
    /\ DOMAIN pc # {}
    /\ pending_ipc = 0
    /\ enqueued = <<>>
    /\ flushes = 0

\* C23: is_blocking_command returns a boolean for every command of the
\* closed set: true for the dialogs, the update commands and OpenUrl, false
\* for ReadConfig, WriteConfig, Ping, GetVersion and GetSystemInfo, whatever
\* the argument.
C23_BlockingTable ==
    Returned("is_blocking_command") =>
        /\ Result \in BOOLEAN
        /\ call.arg.name \in
              {"OpenFileDialog", "OpenFileDialogWithFilters",
               "SaveFileDialog", "OpenFolderDialog", "CheckForUpdates",
               "DownloadUpdate", "InstallUpdate", "OpenUrl"}
              => Result = TRUE
        /\ call.arg.name \in
              {"ReadConfig", "WriteConfig", "Ping", "GetVersion",
               "GetSystemInfo"}
              => Result = FALSE

\* C23 witness: is_blocking_command has returned true for OpenUrl of an
\* https: URL.
C23_Witness ==
    /\ Returned("is_blocking_command")
    /\ call.arg = [name |-> "OpenUrl", url |-> "https:"]
    /\ Result = TRUE

\* C24: when the leaf operation a handler calls has failed, the response
\* built for the request has err set, ok unset and the id of the request.
C24_LeafFailureBecomesErr ==
    (Returned("respond") /\ Result.leaf = "failed") =>
        /\ Result.resp # None
        /\ Result.resp.id = call.arg.id
        /\ Result.resp.err # None
        /\ Result.resp.ok = None

\* C25: for OpenUrl of a URL outside http:// and https:// the response is
\* an err response and the opener was not called; the opener is called only
\* for a URL of one of the two schemes.
C25_OpenUrlSchemeCheck ==
    (Returned("respond") /\ call.arg.command.name = "OpenUrl") =>
        /\ call.arg.command.url \notin {"https:", "http:"} =>
              /\ Result.leaf = "none"
              /\ Result.resp # None
              /\ Result.resp.id = call.arg.id
              /\ Result.resp.err # None
              /\ Result.resp.ok = None
        /\ Result.leaf # "none" => call.arg.command.url \in {"https:", "http:"}

\* C25 witness: OpenUrl of a javascript: URL was answered with an err
\* response without a call of the opener.
C25_Witness ==
    /\ Returned("respond")
    /\ call.arg.command = [name |-> "OpenUrl", url |-> "javascript:"]
    /\ Result.leaf = "none"
    /\ Result.resp.err = Some("URL must be http:// or https://")

\* The string has two dots in a row.
HasDotDot(str) == \E i \in 1..(Len(str) - 1) : str[i] = "." /\ str[i + 1] = "."

\* The string without its leading and trailing separators.
Stripped(str) ==
    LET kept == {i \in 1..Len(str) : str[i] # "/"}
    IN  IF kept = {} THEN <<>>
        ELSE SubSeq(str, CHOOSE i \in kept : \A j \in kept : i <= j,
                         CHOOSE i \in kept : \A j \in kept : i >= j)

\* C26: a request path that contains ".." is rejected by normalize_path
\* and by serve, which returns NotFound without a lookup; no path handed to
\* the embedded directory contains "..".
C26_TraversalRejectedBeforeLookup ==
    /\ (Returned("normalize_path") /\ HasDotDot(call.arg)) => Result = None
    /\ Returned("serve") =>
          /\ HasDotDot(call.arg) =>
                Result.result = NotFound /\ Result.queried = None
          /\ Result.queried # None => ~HasDotDot(Result.queried.some)

\* C26 witness: serve has answered the request for /.. with NotFound and
\* without a lookup.
C26_Witness ==
    /\ Returned("serve")
    /\ call.arg = Text(<<"/", ".", ".">>)
    /\ Result.result = NotFound
    /\ Result.queried = None

\* C27: normalize_path maps a path made only of separators to index.html,
\* and any other path without ".." to itself without its leading and
\* trailing separators.
C27_NormalizePath ==
    Returned("normalize_path") =>
        /\ (\A i \in 1..Len(call.arg) : call.arg[i] = "/") =>
              Result = Some(<<"i", "n", "d", "e", "x", ".", "h", "t", "m", "l">>)
        /\ ((\E i \in 1..Len(call.arg) : call.arg[i] # "/")
                /\ ~HasDotDot(call.arg)) =>
              Result = Some(Stripped(call.arg))

\* C27 witness: normalize_path has mapped // to index.html.
C27_Witness ==
    /\ Returned("normalize_path")
    /\ call.arg = <<"/", "/">>
    /\ Result = Some(INDEX_PATH)

\* The extension table of the protocol; a path whose last dot begins none
\* of these extensions has the type application/octet-stream.
MimeTable ==
    {<<Text(<<".html">>), "text/html">>,
     <<Text(<<".js">>), "application/javascript">>,
     <<Text(<<".css">>), "text/css">>,
     <<Text(<<".json">>), "application/json">>,
     <<Text(<<".ico">>), "image/x-icon">>,
     <<Text(<<".svg">>), "image/svg+xml">>,
     <<Text(<<".png">>), "image/png">>,
     <<Text(<<".woff2">>), "font/woff2">>}

\* The part of the string from its last dot on; empty when it has no dot.
Extension(str) ==
    LET dots == {i \in 1..Len(str) : str[i] = "."}
    IN  IF dots = {} THEN <<>>
        ELSE SubSeq(str, CHOOSE i \in dots : \A j \in dots : i >= j, Len(str))

MimeOf(str) ==
    IF \E row \in MimeTable : row[1] = Extension(str)
    THEN (CHOOSE row \in MimeTable : row[1] = Extension(str))[2]
    ELSE "application/octet-stream"

\* C28: serve returns Found exactly when the request path has no ".." and,
\* stripped of its leading and trailing separators (index.html when nothing
\* is left), is a file of the embedded directory; the body is that file's
\* contents and the MIME type is the extension table's; otherwise NotFound.
C28_ServeFoundIffEmbedded ==
    Returned("serve") =>
        LET stripped == Stripped(call.arg)
            path == IF stripped = <<>>
                    THEN <<"i", "n", "d", "e", "x", ".", "h", "t", "m", "l">>
                    ELSE stripped
        IN  IF ~HasDotDot(call.arg) /\ path \in UiFiles
            THEN /\ Result.result.found
                 /\ Result.result.body = UI[path]
                 /\ Result.result.mime_type = MimeOf(path)
            ELSE Result.result = NotFound

\* C28 witness: serve has answered the request for /a.json with the
\* contents of a.json and the type application/json.
C28_Witness ==
    /\ Returned("serve")
    /\ call.arg = Text(<<"/", "a", ".json">>)
    /\ Result.result = Found(UI[Text(<<"a", ".json">>)], "application/json")

\* The (major, minor, patch) triple of a version: a segment that is
\* missing or not a number counts as zero.
Triple(version) ==
    [k \in 1..3 |->
        IF k > Len(version) \/ version[k] = NonNumeric THEN 0 ELSE version[k]]

\* The sign of the comparison of two triples, major first.
TripleSign(x, y) ==
    IF x = y THEN 0
    ELSE LET k == CHOOSE i \in 1..3 :
                      x[i] # y[i] /\ \A j \in 1..(i - 1) : x[j] = y[j]
         IN  IF x[k] > y[k] THEN 1 ELSE -1

\* C29: semver_compare(a, b) is the sign of the comparison of the triples
\* of a and b, for versions of one to three segments.
C29_SemverCompareIsTripleSign ==
    (Returned("semver_compare") \/ Returned("ipc_rs_semver_compare")) =>
        Result = TripleSign(Triple(call.arg.a), Triple(call.arg.b))

\* C30: when set_value and save_window_bounds, called at the same time
\* with different keys, have both returned, the config file holds both
\* keys with the values written.
C30_ConcurrentWritesBothPersist ==
    (writers # <<>> /\ \A w \in DOMAIN writers : writers[w].pc = "done") =>
        \A w \in DOMAIN writers :
            /\ writers[w].key \in DOMAIN get_full_config
            /\ get_full_config[writers[w].key] \in
                  {Num(writers[w].value), Bounds(writers[w].value)}

\* A step of the event loop's thread.
LoopStepTaken ==
    \/ loopPc' # loopPc
    \/ control_flow' # control_flow
    \/ flushes' < flushes
    \/ show_events' < show_events
    \/ visible' # visible
    \/ config_file' # config_file

C32_IdleTickDrains ==
    [][/\ (/\ loopPc = "events"
           /\ loopPc' \in {"redraw", "drain_load"}
           /\ flushes' = flushes
           /\ ipc_queue # <<>>) =>
              /\ flushes = 0
              /\ loopPc' = "drain_load"
              /\ cause' = "MainEventsCleared"
              /\ batch' = ipc_queue
              /\ ipc_queue' = <<>>
       /\ (loopPc = "drain_sub" /\ cause = "MainEventsCleared") =>
              (loopPc' # loopPc =>
                  /\ Len(scripts') = Len(scripts) + 1
                  /\ Payloads(scripts'[Len(scripts')]) = batch)]_vars

\* C32 witness: a response was delivered by the drain of an idle tick
\* although no IpcFlush event was ever sent: its producer has not signalled
\* yet.
C32_Witness ==
    /\ signalled = {}
    /\ flushes = 0
    /\ \E r \in DOMAIN pc : pc[r] = "signal" /\ InScripts(r)

C34_PoisonedDrainRecovers ==
    [][/\ (/\ poisoned
            /\ loopPc = "events"
            /\ (flushes' < flushes \/ loopPc' \in {"redraw", "drain_load"})) =>
              /\ ipc_queue' = <<>>
              /\ batch' = ipc_queue
              /\ (ipc_queue # <<>>) = (loopPc' = "drain_load")
       /\ (poisoned /\ loopPc = "drain_sub" /\ loopPc' # loopPc) =>
              /\ Len(scripts') = Len(scripts) + 1
              /\ Payloads(scripts'[Len(scripts')]) = batch
              /\ ipc_queue' = ipc_queue]_vars

\* A response was delivered by a drain that followed the poisoning, and a
\* drain after that one delivered a response pushed later.
C34_Witness ==
    /\ recovered = 2
    /\ Len(scripts) = 2
    /\ \E r \in DOMAIN pc : pc[r] = "enqueue_unwound"
    /\ \A i \in 1..Len(enqueued) : InScripts(enqueued[i].by)
    /\ Len(enqueued) = 2
    /\ ipc_queue = <<>>

\* C35: in every reachable state the response queue holds at most
\* MAX_PENDING_IPC response strings, under any interleaving of producers and
\* drains.
C35_QueueAtMostMax == Len(ipc_queue) <= MAX_PENDING_IPC

\* The assets of the list whose name ends with the suffix.
Matching(arr, suffix) ==
    {j \in 1..Len(arr) :
        arr[j].name # None /\ ends_with(arr[j].name.some, suffix)}

\* The first asset whose name ends with the most preferred suffix that any
\* name ends with; the first asset of the list when no name matches.
PreferredAsset(table, arr) ==
    LET hits == {i \in 1..Len(table) : Matching(arr, table[i]) # {}}
    IN  IF hits # {}
        THEN LET i == CHOOSE h \in hits : \A o \in hits : h <= o
             IN  CHOOSE j \in Matching(arr, table[i]) :
                    \A o \in Matching(arr, table[i]) : j <= o
        ELSE 1

\* C36: pick_asset_url returns the download URL of the first asset whose
\* name ends with a suffix of the platform's table (the most preferred
\* suffix first), and the URL of the first asset when no name matches; an
\* asset without a name is passed over.
C36_PicksPreferredAsset ==
    Returned("pick_asset_url") =>
        Result = IF call.arg.assets = <<>>
                 THEN None
                 ELSE call.arg.assets[PreferredAsset(call.arg.table,
                                                     call.arg.assets)].browser_download_url

\* C37: the page-load handler and the timer thread together send ShowWindow
\* exactly once: once either of them has incremented the flag the event has
\* been sent one time, and the one who sends is the one who found the flag
\* at 0, whatever the order and the number of page loads.
C37_ShowWindowSentOnce ==
    /\ [](show_sent = (IF shown > 0 THEN 1 ELSE 0))
    /\ [](shown = page_loads + (IF timer = "fired" THEN 1 ELSE 0))
    /\ [][show_sent' # show_sent => shown = 0 /\ shown' = 1]_vars

\* C37 witness: every page load of the run and the timer thread have
\* incremented the flag, and one ShowWindow was sent.
C37_Witness ==
    /\ page_loads = MaxPageLoads
    /\ timer = "fired"
    /\ shown = MaxPageLoads + 1
    /\ show_sent = 1

C39_SemverComparesAgree ==
    /\ Returned("semver_compare") =>
          Result = ipc_rs_semver_compare(call.arg.a, call.arg.b)
    /\ Returned("ipc_rs_semver_compare") =>
          Result = semver_compare(call.arg.a, call.arg.b)

\* C40: the config ReadConfig returns after WriteConfig(k, v) is the config
\* it would have returned before, with k mapped to v and every other entry
\* (other keys, window, theme) as it was; for every key, "window" and
\* "theme" included, and every value.
C40_ReadAfterWrite ==
    /\ [][(call.fn = "WriteConfig" /\ call.ret = Pending /\ call'.ret # Pending) =>
             FullConfig(unwrap_or_default(from_str(config_file'))) =
                Insert(FullConfig(unwrap_or_default(from_str(config_file))),
                       call.arg.key, call.arg.value)]_vars
    /\ [][(call.fn = "WriteConfig" /\ call'.fn = "ReadConfig") =>
             /\ call'.ret.value = Ok(FullConfig(unwrap_or_default(from_str(config_file))))
             /\ config_file' = config_file]_vars
====
